---- MODULE Spec2Model ----
(***************************************************************************)
(* Model of map_nav_src/r2r/env.py: the batched navigation environment     *)
(* (EnvBatch, R2RNavBatch) and its trajectory evaluator.                   *)
(*                                                                         *)
(* Distances are integers in hundredths of a distance unit, so that the    *)
(* 0.01 floor of the SPL denominator is the integer 1 and ERROR_MARGIN     *)
(* (3.0) is 300.  A quotient a / b is kept as the pair <<a, b>>.           *)
(* A Python exception is recorded in `raised` as "<Type>@<line>", the      *)
(* line being the line of env.py that raises; "" means the call returned.  *)
(***************************************************************************)
EXTENDS Integers, Sequences, FiniteSets, TLC

VARIABLES
    \* ---- R2RNavBatch / EnvBatch object state
    real_world,     \* self.real_world
    batch_size,     \* self.batch_size, also len(self.env.sims)
    attrs,          \* the attributes __init__ or a later call has assigned on self
    data,           \* self.data: the dataset in its current order (record numbers)
    ix,             \* self.ix, meaningful when "ix" \in attrs
    batch,          \* self.batch, meaningful when "batch" \in attrs
    sims,           \* self.env.sims: per slot, <<>> (no episode) or <<state>>
    obj2vps,        \* self.obj2vps: attribute missing, None or a dict
    \* ---- the latest call and what it returned
    called,         \* name of the latest call
    arg_batch_size, \* batch size the latest reset worked with (0 before any)
    obs,            \* Observations returned by the latest reset / step
    preds,          \* argument of eval_metrics
    metrics,        \* per-item metric lists returned by eval_metrics
    avg_metrics,    \* summary returned by eval_metrics
    raised,         \* exception of the latest call, "" when it returned
    \* ---- history variables (not program state)
    drawn,          \* data positions drawn since the latest shuffle or rewind
    nearest         \* nearest_position of each item eval_metrics scored or reached

vars == <<real_world, batch_size, attrs, data, ix, batch, sims, obj2vps, called,
          arg_batch_size, obs, preds, metrics, avg_metrics, raised, drawn,
          nearest>>

navVars == <<real_world, batch_size, attrs, data, ix, batch, sims, arg_batch_size,
             obs, drawn>>

evalVars == <<obj2vps, preds, metrics, avg_metrics, nearest>>

-----------------------------------------------------------------------------
(* Bounds of the model *)

\* largest dataset (number of instruction records) an orchestrator is built on
MaxData == 2
\* largest batch size: slots of an orchestrator and the batch_size of a reset
MaxBatch == 2
\* most viewpoints of one predicted trajectory, over all its segments
MaxLen == 2
\* most predictions of one eval_metrics call
MaxPreds == 1

-----------------------------------------------------------------------------
(* Program constants *)

\* ERROR_MARGIN = 3.0, in hundredths
ERROR_MARGIN == 300
\* the 0.01 of max(trajectory_lengths, gt_lengths, 0.01), in hundredths
SPL_FLOOR == 1

-----------------------------------------------------------------------------
(* The collaborators' data: connectivity graphs and the instruction file *)

Viewpoints == {"A", "B", "C"}

Scans == {"S1", "S2"}

\* undirected weighted edges of each scan's connectivity graph
NavGraphs ==
    [S1 |-> {<<"A", "B", 100>>, <<"B", "C", 200>>, <<"A", "C", 200>>},
     S2 |-> {<<"A", "B", 300>>, <<"B", "C", 300>>, <<"A", "C", 700>>}]

\* instr_data as loaded from the instruction file; objId "None" is a record
\* without an 'objId' entry: x.get('objId') is None and str(None) is "None"
InstrData ==
    << [instr_id |-> "i1", scan |-> "S1", path |-> <<"A", "C">>, objId |-> "o1"],
       [instr_id |-> "i2", scan |-> "S2", path |-> <<"B">>, objId |-> "None"],
       [instr_id |-> "i3", scan |-> "S1", path |-> <<"C", "B", "A">>, objId |-> "o1"] >>

Min(S) == CHOOSE m \in S : \A n \in S : m <= n

Max(S) == CHOOSE m \in S : \A n \in S : m >= n

Last(s) == s[Len(s)]

RECURSIVE SumSeq(_)
SumSeq(s) == IF s = <<>> THEN 0 ELSE s[1] + SumSeq(Tail(s))

-----------------------------------------------------------------------------
(* _load_nav_graphs: all-pairs shortest distances of each scan *)

EdgeWeight(G, u, v) ==
    LET ws == {e[3] : e \in {e \in G : <<e[1], e[2]>> \in {<<u, v>>, <<v, u>>}}}
    IN  IF u = v THEN {0} ELSE ws

\* distances over paths of at most n edges (n = |V| - 1 gives the shortest)
RECURSIVE PathLengths(_, _, _, _)
PathLengths(G, u, v, n) ==
    IF n = 0 THEN (IF u = v THEN {0} ELSE {})
    ELSE PathLengths(G, u, v, n - 1) \cup
         UNION { { d + w : d \in PathLengths(G, u, m, n - 1), w \in EdgeWeight(G, m, v) }
                 : m \in Viewpoints }

shortest_distances ==
    [s \in Scans |->
        [u \in Viewpoints |->
            [v \in Viewpoints |->
                Min(PathLengths(NavGraphs[s], u, v, Cardinality(Viewpoints) - 1))]]]

\* gt_trajs = {instr_id: (scan, path, objId)} over the whole instruction file
GetGtTrajs(n) ==
    [id \in {InstrData[i].instr_id : i \in 1..n} |->
        LET x == InstrData[CHOOSE i \in 1..n : InstrData[i].instr_id = id]
        IN  <<x.scan, x.path, x.objId>>]

-----------------------------------------------------------------------------
(* Trajectory evaluation *)

\* sum(pred_path, []): the segments of a trajectory, concatenated
RECURSIVE Flatten(_)
Flatten(pred_path) ==
    IF pred_path = <<>> THEN <<>> ELSE pred_path[1] \o Flatten(Tail(pred_path))

\* mutant of NearestLoop: d <= near_d, so a later viewpoint at the same
\* distance replaces the earlier one
RECURSIVE NearestLoopLastMin(_, _, _, _, _, _)
NearestLoopLastMin(sd, goal_id, path, i, near_id, near_d) ==
    IF i > Len(path) THEN near_id
    ELSE LET d == sd[path[i]][goal_id]
         IN  IF d <= near_d
             THEN NearestLoopLastMin(sd, goal_id, path, i + 1, path[i], d)
             ELSE NearestLoopLastMin(sd, goal_id, path, i + 1, near_id, near_d)

\* the loop of _get_nearest from item i on, holding (near_id, near_d)
RECURSIVE NearestLoop(_, _, _, _, _, _)
NearestLoop(sd, goal_id, path, i, near_id, near_d) ==
    IF i > Len(path) THEN near_id
    ELSE LET d == sd[path[i]][goal_id]
         IN  IF d < near_d
             THEN NearestLoop(sd, goal_id, path, i + 1, path[i], d)
             ELSE NearestLoop(sd, goal_id, path, i + 1, near_id, near_d)

GetNearest(sd, goal_id, path) ==
    NearestLoop(sd, goal_id, path, 1, path[1], sd[path[1]][goal_id])

\* np.sum([shortest_distances[a][b] for a, b in zip(path[:-1], path[1:])])
PathLength(sd, path) ==
    SumSeq([i \in 1..(Len(path) - 1) |-> sd[path[i]][path[i + 1]]])

\* float(nav_error < ERROR_MARGIN)
WithinMargin(err) == IF err < ERROR_MARGIN THEN 1 ELSE 0

\* mutant of EndsInGoal: tests the first viewpoint of the path, not the last
EndsInGoalFirst(path, goal_viewpoints) == IF path[1] \in goal_viewpoints THEN 1 ELSE 0

\* float(path[-1] in goal_viewpoints)
EndsInGoal(path, goal_viewpoints) == IF Last(path) \in goal_viewpoints THEN 1 ELSE 0

\* mutant of VisitsGoal: leaves the last viewpoint of the path out
VisitsGoalBeforeEnd(path, goal_viewpoints) ==
    IF \E i \in 1..(Len(path) - 1) : path[i] \in goal_viewpoints THEN 1 ELSE 0

\* float(any(x in goal_viewpoints for x in path))
VisitsGoal(path, goal_viewpoints) ==
    IF \E i \in 1..Len(path) : path[i] \in goal_viewpoints THEN 1 ELSE 0

\* mutant of Spl: the denominator leaves gt_lengths out of the max
SplNoGtInMax(success, trajectory_lengths, gt_lengths) ==
    <<success * gt_lengths, Max({trajectory_lengths, SPL_FLOOR})>>

\* success * gt_lengths / max(trajectory_lengths, gt_lengths, 0.01), as <<num, den>>
Spl(success, trajectory_lengths, gt_lengths) ==
    <<success * gt_lengths, Max({trajectory_lengths, gt_lengths, SPL_FLOOR})>>

\* '%s_%s' % (scan, str(gt_objid))
GoalKey(scan, gt_objid) == scan \o "_" \o gt_objid

\* mutant of StartsAtStart: the assertion is gone
StartsAnywhere(gt_path, path) == TRUE

\* the assertion of line 294
StartsAtStart(gt_path, path) == gt_path[1] = path[1]

Failed(exc, near) == [raised |-> exc, scores |-> <<>>, nearest |-> near]

\* _eval_item with self.obj2vps = o2v; nDTW, SDTW and CLS (cal_dtw, cal_cls of
\* r2r.eval_utils) are computed after every score below and change none of them
EvalItem(scan, pred_path, gt_path, gt_objid, o2v) ==
    LET sd   == shortest_distances[scan]
        path == Flatten(pred_path)
    IN  IF path = <<>> THEN Failed("IndexError@294", <<>>)
        ELSE IF ~StartsAtStart(gt_path, path) THEN Failed("AssertionError@294", <<>>)
        ELSE
        LET nearest_position == GetNearest(sd, Last(gt_path), path)
            nav_error    == sd[Last(path)][Last(gt_path)]
            oracle_error == sd[nearest_position][Last(gt_path)]
            trajectory_lengths == PathLength(sd, path)
            gt_lengths   == PathLength(sd, gt_path)
            key          == GoalKey(scan, gt_objid)
            Scored(success, oracle_success) ==
                [raised |-> "",
                 scores |-> << [nav_error |-> nav_error,
                                oracle_error |-> oracle_error,
                                action_steps |-> Len(pred_path) - 1,
                                trajectory_steps |-> Len(path) - 1,
                                trajectory_lengths |-> trajectory_lengths,
                                success |-> success,
                                oracle_success |-> oracle_success,
                                spl |-> Spl(success, trajectory_lengths, gt_lengths)] >>,
                 nearest |-> <<nearest_position>>]
        IN  IF o2v.kind = "unset" THEN Failed("AttributeError@306", <<nearest_position>>)
            ELSE IF o2v.kind = "None"
            THEN Scored(WithinMargin(nav_error), WithinMargin(oracle_error))
            ELSE IF key \notin DOMAIN o2v.dict
            THEN Failed("KeyError@311", <<nearest_position>>)
            ELSE IF o2v.dict[key] = {}
            THEN Failed("AssertionError@312", <<nearest_position>>)
            ELSE Scored(EndsInGoal(path, o2v.dict[key]), VisitsGoal(path, o2v.dict[key]))

MetricKeys ==
    {"nav_error", "oracle_error", "action_steps", "trajectory_steps",
     "trajectory_lengths", "success", "oracle_success", "spl"}

NoMetrics == [k \in MetricKeys \cup {"instr_id"} |-> <<>>]

\* the loop of eval_metrics from item i on: the first failing item ends the call
RECURSIVE EvalLoop(_, _, _, _, _, _)
EvalLoop(items, gt_trajs, o2v, i, acc, near) ==
    IF i > Len(items) THEN [raised |-> "", metrics |-> acc, nearest |-> near]
    ELSE LET gt == gt_trajs[items[i].instr_id]
             r  == EvalItem(gt[1], items[i].trajectory, gt[2], gt[3], o2v)
         IN  IF r.raised # ""
             THEN [raised |-> r.raised, metrics |-> NoMetrics, nearest |-> near \o r.nearest]
             ELSE EvalLoop(items, gt_trajs, o2v, i + 1,
                      [k \in DOMAIN acc |->
                          IF k = "instr_id" THEN Append(acc[k], items[i].instr_id)
                          ELSE Append(acc[k], r.scores[1][k])],
                      near \o r.nearest)

\* sum of a list of quotients, as one quotient
RECURSIVE SumQuot(_)
SumQuot(qs) ==
    IF qs = <<>> THEN <<0, 1>>
    ELSE LET r == SumQuot(Tail(qs))
         IN  <<qs[1][1] * r[2] + r[1] * qs[1][2], qs[1][2] * r[2]>>

\* np.mean(xs) * scale as the quotient <<scale * sum, len>>; <<0, 0>> is nan
MeanOf(xs, scale) == <<scale * SumSeq(xs), Len(xs)>>

NoAverages == [k \in {} |-> <<0, 0>>]

AvgMetrics(m) ==
    [action_steps |-> MeanOf(m["action_steps"], 1),
     steps        |-> MeanOf(m["trajectory_steps"], 1),
     lengths      |-> MeanOf(m["trajectory_lengths"], 1),
     nav_error    |-> MeanOf(m["nav_error"], 1),
     oracle_error |-> MeanOf(m["oracle_error"], 1),
     sr           |-> MeanOf(m["success"], 100),
     oracle_sr    |-> MeanOf(m["oracle_success"], 100),
     spl          |-> LET q == SumQuot(m["spl"])
                      IN  <<100 * q[1], q[2] * Len(m["spl"])>>]

\* eval_metrics(preds), on an orchestrator that has gt_trajs (simulated mode)
EvalMetrics ==
    /\ "gt_trajs" \in attrs
    /\ LET r == EvalLoop(preds, GetGtTrajs(Len(data)), obj2vps, 1, NoMetrics, <<>>)
       IN  /\ raised' = r.raised
           /\ metrics' = r.metrics
           /\ avg_metrics' = IF r.raised = "" THEN AvgMetrics(r.metrics) ELSE NoAverages
           /\ nearest' = r.nearest
    /\ called' = "eval_metrics"
    /\ UNCHANGED <<navVars, obj2vps, preds>>

\* the goal-membership tables a caller may supply: object key -> goal viewpoints
GoalSets == {{}, {"C"}, {"A", "B"}}

Obj2vpsTables == {[kind |-> "dict", dict |-> ("S1_o1" :> g)] : g \in GoalSets}

Obj2vpsUnset == [kind |-> "unset", dict |-> [k \in {} |-> {}]]

Obj2vpsNone == [kind |-> "None", dict |-> [k \in {} |-> {}]]

\* the caller stores None or a goal-membership table in the attribute obj2vps
AssignObj2vps ==
    /\ \E t \in Obj2vpsTables \cup {Obj2vpsNone} : obj2vps' = t
    /\ called' = "assign_obj2vps"
    /\ raised' = ""
    /\ metrics' = NoMetrics
    /\ avg_metrics' = NoAverages
    /\ nearest' = <<>>
    /\ UNCHANGED <<navVars, preds>>

\* the non-empty sequences over Viewpoints of length n
RECURSIVE SeqsOfLen(_)
SeqsOfLen(n) ==
    IF n = 0 THEN {<<>>}
    ELSE {<<v>> \o s : v \in Viewpoints, s \in SeqsOfLen(n - 1)}

\* the trajectories of at most n viewpoints: sequences of non-empty segments
RECURSIVE TrajsUpTo(_)
TrajsUpTo(n) ==
    {<<>>} \cup
    UNION { {<<seg>> \o t : seg \in SeqsOfLen(k), t \in TrajsUpTo(n - k)} : k \in 1..n }

Trajectories == TrajsUpTo(MaxLen)

\* the dataset the evaluated orchestrator is built on
EvalData == <<1, 2>>

\* prediction lists: at most n items, one per instruction, in dataset order
RECURSIVE PredsFrom(_, _)
PredsFrom(first, n) ==
    {<<>>} \cup
    IF n = 0 THEN {}
    ELSE UNION { {<<[instr_id |-> InstrData[r].instr_id, trajectory |-> t]>> \o rest :
                     t \in Trajectories, rest \in PredsFrom(r + 1, n - 1)}
                 : r \in first..Len(EvalData) }

\* a simulated-mode orchestrator after __init__, and the predictions to evaluate
InitEval ==
    /\ real_world = FALSE
    /\ batch_size = 1
    /\ attrs = {"gt_trajs", "ix", "graphs", "shortest_paths", "shortest_distances",
                "candidates_dict"}
    /\ data = EvalData
    /\ ix = 0
    /\ batch = <<>>
    /\ sims = [i \in 1..1 |-> <<>>]
    /\ obj2vps = Obj2vpsUnset
    /\ called = "__init__"
    /\ arg_batch_size = 0
    /\ obs = <<>>
    /\ preds \in PredsFrom(1, MaxPreds)
    /\ metrics = NoMetrics
    /\ avg_metrics = NoAverages
    /\ raised = ""
    /\ drawn = {}
    /\ nearest = <<>>

NextEval == EvalMetrics \/ AssignObj2vps

SpecEval == InitEval /\ [][NextEval]_vars

-----------------------------------------------------------------------------
(* The simulator handles (MatterSim), as EnvBatch uses them *)

VpOrder == <<"A", "B", "C">>

Adjacent(scan, u, v) == u # v /\ EdgeWeight(NavGraphs[scan], u, v) # {}

\* per scan and viewpoint: the viewpoint itself, then its neighbours
navigable_table ==
    [scan \in Scans |->
        [vp \in Viewpoints |->
            <<vp>> \o SelectSeq(VpOrder, LAMBDA v : Adjacent(scan, vp, v))]]

\* state.navigableLocations of a simulator at vp
NavigableLocations(scan, vp) == navigable_table[scan][vp]

\* self.candidates_dict: per scan and viewpoint, the neighbouring viewpoints
candidates_dict ==
    [scan \in Scans |-> [vp \in Viewpoints |-> {v \in Viewpoints : Adjacent(scan, vp, v)}]]

\* make_candidate: the candidates' viewpoint ids
Candidates(scan, vp) == candidates_dict[scan][vp]

\* the largest action index of any viewpoint
MaxIndex == Max({Len(NavigableLocations(s, v)) : s \in Scans, v \in Viewpoints}) - 1

\* EnvBatch.newEpisodes: record i starts simulator i; a record beyond the last
\* simulator raises at self.sims[i]
NewEpisodes(ss, items) ==
    [sims |-> [i \in DOMAIN ss |->
                  IF i <= Len(items)
                  THEN <<[scanId |-> InstrData[items[i]].scan,
                          viewpointId |-> InstrData[items[i]].path[1]]>>
                  ELSE ss[i]],
     raised |-> IF Len(items) > Len(ss) THEN "IndexError@58" ELSE ""]

\* EnvBatch.makeActions: action i moves simulator i to navigableLocations[index]
MakeActions(ss, actions) ==
    [i \in DOMAIN ss |->
        IF i <= Len(actions)
        THEN <<[scanId |-> ss[i][1].scanId,
                viewpointId |->
                    NavigableLocations(ss[i][1].scanId, ss[i][1].viewpointId)[actions[i] + 1]]>>
        ELSE ss[i]]

-----------------------------------------------------------------------------
(* R2RNavBatch: minibatches, reset, step *)

\* random.shuffle(self.data): any order of the same records
Shuffle(d) == {[i \in DOMAIN d |-> d[p[i]]] : p \in Permutations(DOMAIN d)}

\* self.data[lo:hi] of Python, lo and hi counted from 0
Slice(d, lo, hi) == SubSeq(d, lo + 1, Min({hi, Len(d)}))

\* len(batch) < batch_size: fewer than bs records remain at cursor i
Wraps(d, i, bs) == Len(Slice(d, i, i + bs)) < bs

\* mutant of NextMinibatch: a batch that does not wrap moves the cursor by one
NextMinibatchByOne(d, i, bs, shuffled) ==
    LET b == Slice(d, i, i + bs)
    IN  IF Wraps(d, i, bs)
        THEN [data |-> shuffled, ix |-> bs - Len(b),
              batch |-> b \o Slice(shuffled, 0, bs - Len(b)), wrapped |-> TRUE]
        ELSE [data |-> d, ix |-> i + 1, batch |-> b, wrapped |-> FALSE]

\* _next_minibatch with batch size bs, from data d and cursor i; `shuffled` is
\* the order random.shuffle leaves when the batch wraps
NextMinibatch(d, i, bs, shuffled) ==
    LET b == Slice(d, i, i + bs)
    IN  IF Wraps(d, i, bs)
        THEN [data |-> shuffled, ix |-> bs - Len(b),
              batch |-> b \o Slice(shuffled, 0, bs - Len(b)), wrapped |-> TRUE]
        ELSE [data |-> d, ix |-> i + bs, batch |-> b, wrapped |-> FALSE]

\* the batch size _next_minibatch works with: b = 0 stands for batch_size=None
EffectiveBatchSize(b) ==
    IF real_world THEN 1 ELSE IF b = 0 THEN batch_size ELSE b

\* one Observation of _get_obs, from record number item and simulator state st;
\* a simulator state is kept as (scanId, viewpointId): viewIndex, heading,
\* elevation, position and the image feature are copied from the simulator and
\* the feature store as they are, and instruction and path_id from the record
Observation(item, st) ==
    [instr_id |-> InstrData[item].instr_id,
     scan |-> st.scanId,
     viewpoint |-> st.viewpointId,
     candidate |-> Candidates(st.scanId, st.viewpointId),
     navigableLocations |-> NavigableLocations(st.scanId, st.viewpointId),
     gt_path |-> InstrData[item].path,
     distance |-> IF InstrData[item].instr_id \in DOMAIN GetGtTrajs(Len(data))
                  THEN shortest_distances[st.scanId][st.viewpointId][Last(InstrData[item].path)]
                  ELSE 0]

\* the exceptions _get_obs can end with on simulators ss and minibatch items;
\* {""} when it returns.  A simulator that never started an episode has no
\* state to report: the call fails in getStates or, at the latest, at batch[i]
GetObsRaises(ss, items) ==
    IF real_world THEN {"NameError@228"}
    ELSE IF \E i \in DOMAIN ss : ss[i] = <<>> THEN {"SimulatorError@71", "IndexError@231"}
    ELSE IF Len(items) < Len(ss) THEN {"IndexError@231"}
    ELSE {""}

GetObs(ss, items) == [i \in DOMAIN ss |-> Observation(items[i], ss[i][1])]

\* reset(batch_size=b): _next_minibatch, newEpisodes, _get_obs
Reset ==
    \E b \in 0..MaxBatch :
        /\ called' = "reset"
        /\ arg_batch_size' = EffectiveBatchSize(b)
        /\ UNCHANGED <<real_world, batch_size, evalVars>>
        /\ IF "ix" \notin attrs
           THEN /\ raised' = "AttributeError@174"
                /\ obs' = <<>>
                /\ UNCHANGED <<attrs, data, ix, batch, sims, drawn>>
           ELSE \E shuffled \in (IF Wraps(data, ix, EffectiveBatchSize(b))
                                   THEN Shuffle(data) ELSE {data}) :
                LET bs == EffectiveBatchSize(b)
                    mb == NextMinibatch(data, ix, bs, shuffled)
                    ne == NewEpisodes(sims, mb.batch)
                IN  /\ data' = mb.data
                    /\ ix' = mb.ix
                    /\ batch' = mb.batch
                    /\ attrs' = attrs \cup {"batch"}
                    /\ drawn' = IF mb.wrapped THEN 1..Min({mb.ix, Len(data)})
                                ELSE drawn \cup ((ix + 1)..(ix + bs))
                    /\ sims' = ne.sims
                    /\ IF ne.raised # ""
                       THEN raised' = ne.raised /\ obs' = <<>>
                       ELSE /\ raised' \in GetObsRaises(ne.sims, mb.batch)
                            /\ obs' = IF raised' = "" THEN GetObs(ne.sims, mb.batch)
                                      ELSE <<>>

\* the action lists of a step: one index per slot, valid for the slot's viewpoint
ActionLists ==
    {a \in [1..batch_size -> 0..MaxIndex] :
        \A i \in 1..batch_size :
            /\ sims[i] # <<>>
            /\ a[i] + 1 <= Len(NavigableLocations(sims[i][1].scanId, sims[i][1].viewpointId))}

\* step(actions): makeActions, _get_obs
Step ==
    \E actions \in ActionLists :
        LET moved == MakeActions(sims, actions)
        IN  /\ called' = "step"
            /\ sims' = moved
            /\ raised' \in GetObsRaises(moved, batch)
            /\ obs' = IF raised' = "" THEN GetObs(moved, batch) ELSE <<>>
            /\ UNCHANGED <<real_world, batch_size, attrs, data, ix, batch,
                           arg_batch_size, drawn, evalVars>>

\* reset_epoch(shuffle)
ResetEpoch ==
    \E shuffle \in BOOLEAN :
        /\ data' \in (IF shuffle THEN Shuffle(data) ELSE {data})
        /\ ix' = 0
        /\ attrs' = attrs \cup {"ix"}
        /\ drawn' = {}
        /\ called' = "reset_epoch"
        /\ raised' = ""
        /\ obs' = <<>>
        /\ UNCHANGED <<real_world, batch_size, batch, sims, arg_batch_size, evalVars>>

\* R2RNavBatch.__init__ on the first n records with batch_size slots
\* (sel_data_idxs=None)
Init ==
    /\ real_world \in BOOLEAN
    /\ batch_size \in 1..MaxBatch
    /\ \E n \in 1..MaxData :
          data \in (IF real_world THEN {[i \in 1..n |-> i]}
                    ELSE Shuffle([i \in 1..n |-> i]))
    /\ attrs = IF real_world THEN {}
               ELSE {"gt_trajs", "ix", "graphs", "shortest_paths",
                     "shortest_distances", "candidates_dict"}
    /\ ix = 0
    /\ batch = <<>>
    /\ sims = [i \in 1..batch_size |-> <<>>]
    /\ obj2vps = Obj2vpsUnset
    /\ called = "__init__"
    /\ arg_batch_size = 0
    /\ obs = <<>>
    /\ preds = <<>>
    /\ metrics = NoMetrics
    /\ avg_metrics = NoAverages
    /\ raised = ""
    /\ drawn = {}
    /\ nearest = <<>>

Next == Reset \/ Step \/ ResetEpoch

Spec == Init /\ [][Next]_vars

-----------------------------------------------------------------------------
(* Claims about the evaluator, checked under SpecEval *)

Evaluated == called = "eval_metrics"

\* the items of the latest eval_metrics call
Items == 1..Len(preds)

\* the reference (scan, path, objId) and the flattened prediction of item k
GtOf(k) == GetGtTrajs(Len(data))[preds[k].instr_id]

PredPath(k) == Flatten(preds[k].trajectory)

\* distance of viewpoint v to the reference goal of item k
GoalDistance(k, v) == shortest_distances[GtOf(k)[1]][v][Last(GtOf(k)[2])]

\* the item at which the latest call raised; 0 when it returned
StoppedAt ==
    IF raised = "" THEN 0
    ELSE IF raised \in {"IndexError@294", "AssertionError@294"} THEN Len(nearest) + 1
    ELSE Len(nearest)

\* the items the latest call went through
Reached == IF StoppedAt = 0 THEN Items ELSE 1..StoppedAt

Returned == Evaluated /\ raised = ""

\* C3 (as claimed): with no goal-membership table supplied, every item that
\* starts at the reference start is scored, with success = 1.0 iff nav_error < 3.0
\* and oracle_success = 1.0 iff oracle_error < 3.0.
C3_SingleGoalMargin ==
    (/\ Evaluated
     /\ obj2vps.kind # "dict"
     /\ \A k \in Items : PredPath(k) # <<>> /\ PredPath(k)[1] = GtOf(k)[2][1])
    => /\ raised = ""
       /\ \A k \in Items :
            /\ metrics["success"][k] = 1 <=> metrics["nav_error"][k] < ERROR_MARGIN
            /\ metrics["oracle_success"][k] = 1 <=> metrics["oracle_error"][k] < ERROR_MARGIN

C7_MultiGoalPolicy ==
    (Evaluated /\ obj2vps.kind = "dict") =>
        /\ raised = "" =>
              \A k \in Items :
                  LET key == GtOf(k)[1] \o "_" \o GtOf(k)[3]
                  IN  /\ key \in DOMAIN obj2vps.dict
                      /\ obj2vps.dict[key] # {}
                      /\ metrics["success"][k] = 1
                            <=> PredPath(k)[Len(PredPath(k))] \in obj2vps.dict[key]
                      /\ metrics["oracle_success"][k] = 1
                            <=> \E i \in 1..Len(PredPath(k)) : PredPath(k)[i] \in obj2vps.dict[key]
        /\ \A k \in 1..Len(nearest) :
              LET key == GtOf(k)[1] \o "_" \o GtOf(k)[3]
              IN  (key \in DOMAIN obj2vps.dict /\ obj2vps.dict[key] = {})
                  => /\ raised = "AssertionError@312"
                     /\ StoppedAt = k
                     /\ metrics = NoMetrics
                     /\ avg_metrics = NoAverages

\* multi-goal scores that the margin would have decided the other way: the
\* path ends on the reference goal, which is not a goal viewpoint
C7_Witness ==
    /\ Returned
    /\ obj2vps.kind = "dict"
    /\ \E k \in Items :
          /\ metrics["success"][k] = 0
          /\ metrics["nav_error"][k] = 0
          /\ metrics["oracle_success"][k] = 1

\* C8: the nearest position of every item is a viewpoint of its path at the
\* least distance to the reference goal, the first such in the path, and
\* oracle_error is the distance from it to the goal.
C8_NearestIsFirstMinimum ==
    Evaluated =>
        \A k \in 1..Len(nearest) :
            /\ \E i \in 1..Len(PredPath(k)) :
                  /\ PredPath(k)[i] = nearest[k]
                  /\ \A j \in 1..Len(PredPath(k)) :
                        GoalDistance(k, PredPath(k)[j]) >= GoalDistance(k, nearest[k])
                  /\ \A j \in 1..(i - 1) :
                        GoalDistance(k, PredPath(k)[j]) > GoalDistance(k, nearest[k])
            /\ raised = "" => metrics["oracle_error"][k] = GoalDistance(k, nearest[k])

\* two different viewpoints of a path tie for the least distance
C8_Witness ==
    /\ Returned
    /\ \E k \in Items :
          \E i, j \in 1..Len(PredPath(k)) :
              /\ i < j
              /\ PredPath(k)[i] # PredPath(k)[j]
              /\ GoalDistance(k, PredPath(k)[i]) = GoalDistance(k, PredPath(k)[j])
              /\ \A m \in 1..Len(PredPath(k)) :
                    GoalDistance(k, PredPath(k)[m]) >= GoalDistance(k, PredPath(k)[i])
              /\ nearest[k] = PredPath(k)[i]

\* C9: an item whose first viewpoint differs from the reference start ends the
\* eval_metrics call with the assertion of line 294, before anything of the
\* item is computed and with nothing returned; an item that starts at the
\* reference start passes the assertion and its scoring proceeds.
C9_StartAssertion ==
    Evaluated =>
        \A k \in Reached :
            PredPath(k) # <<>> =>
                IF PredPath(k)[1] # GtOf(k)[2][1]
                THEN /\ raised = "AssertionError@294"
                     /\ StoppedAt = k
                     /\ Len(nearest) = k - 1
                     /\ metrics = NoMetrics
                     /\ avg_metrics = NoAverages
                ELSE /\ k <= Len(nearest)
                     /\ ~(raised = "AssertionError@294" /\ StoppedAt = k)

\* a call ended by the assertion on a trajectory that starts elsewhere
C9_Witness ==
    /\ Evaluated
    /\ raised = "AssertionError@294"
    /\ PredPath(StoppedAt) # <<>>
    /\ PredPath(StoppedAt)[1] # GtOf(StoppedAt)[2][1]

\* C10: in every score, oracle_error <= nav_error, and success = 1.0 implies
\* oracle_success = 1.0, under either policy.
C10_OracleDominates ==
    Returned =>
        \A k \in Items :
            /\ metrics["oracle_error"][k] <= metrics["nav_error"][k]
            /\ metrics["success"][k] = 1 => metrics["oracle_success"][k] = 1

\* a multi-goal success whose only goal viewpoint on the path is its last
C10_Witness ==
    /\ Returned
    /\ obj2vps.kind = "dict"
    /\ \E k \in Items :
          /\ metrics["success"][k] = 1
          /\ metrics["oracle_success"][k] = 1
          /\ \A i \in 1..(Len(PredPath(k)) - 1) :
                PredPath(k)[i] \notin obj2vps.dict[GtOf(k)[1] \o "_" \o GtOf(k)[3]]

-----------------------------------------------------------------------------
(* Claims about the orchestrator, checked under Spec *)

\* C1 (as claimed): in simulated mode every reset stores a minibatch of
\* exactly batchSize records, whatever the dataset and the batch size.
C1_EveryBatchFull ==
    (called = "reset" /\ ~real_world) => Len(batch) = arg_batch_size

\* C2 (as claimed): in real-world mode reset and step succeed and return the
\* pose-only feed of the single slot the batch size is forced to.
C2_RealWorldPoseOnlyFeed ==
    (real_world /\ called \in {"reset", "step"}) =>
        /\ raised = ""
        /\ Len(obs) = 1
        /\ Len(batch) = 1

\* C5 (as claimed): every reset with the configured batch size and every step,
\* in simulated mode, returns one Observation per slot, Observation i made of
\* slot i's simulator pose and slot i's record.
C5_OneObservationPerSlot ==
    (/\ ~real_world
     /\ called \in {"reset", "step"}
     /\ arg_batch_size = batch_size)
    => /\ raised = ""
       /\ DOMAIN obs = 1..batch_size
       /\ \A i \in 1..batch_size :
             /\ obs[i].instr_id = InstrData[batch[i]].instr_id
             /\ obs[i].gt_path = InstrData[batch[i]].path
             /\ obs[i].scan = sims[i][1].scanId
             /\ obs[i].viewpoint = sims[i][1].viewpointId

\* C6: a reset that does not wrap moves the cursor forward by exactly its batch
\* size and draws the slice of the data order that starts at the old cursor,
\* none of whose positions was drawn since the latest shuffle or rewind; a
\* reset that wraps draws the undrawn remainder, then the first
\* batchSize - remainder positions of the new order, and leaves the cursor
\* there; reset_epoch leaves the cursor at 0.
C6_CursorTraversal ==
    [][ /\ (called' = "reset" /\ raised' # "AttributeError@174") =>
              LET bs == arg_batch_size'
                  remainder == Len(data) - Min({ix, Len(data)})
              IN  IF remainder >= bs
                  THEN /\ ix' = ix + bs
                       /\ ix' > ix
                       /\ data' = data
                       /\ batch' = SubSeq(data, ix + 1, ix + bs)
                       /\ drawn \cap ((ix + 1)..(ix + bs)) = {}
                       /\ drawn' = drawn \cup ((ix + 1)..(ix + bs))
                  ELSE /\ ix' = bs - remainder
                       /\ drawn \cap ((ix + 1)..Len(data)) = {}
                       /\ SubSeq(batch', 1, remainder) = SubSeq(data, ix + 1, Len(data))
                       /\ SubSeq(batch', remainder + 1, Len(batch'))
                             = SubSeq(data', 1, Min({ix', Len(data)}))
                       /\ drawn' = 1..Min({ix', Len(data)})
        /\ called' = "reset_epoch" => ix' = 0 /\ drawn' = {}
      ]_vars

\* a reset that wrapped with records left over, after part of the dataset had
\* been drawn by an earlier reset, and returned its observations
C6_Witness ==
    /\ called = "reset"
    /\ ~real_world
    /\ raised = ""
    /\ 0 < ix
    /\ ix < arg_batch_size
    /\ arg_batch_size <= Len(data)

====
